---------------------------- MODULE Spec2Model ----------------------------
(***************************************************************************)
(* The query engine of the Excel chat assistant: processExcelQuery and     *)
(* generateSummary, over a table of rows read from a sheet.                *)
(*                                                                         *)
(* JavaScript strings are sequences of one-character strings, so that     *)
(* includes, toLowerCase, String(), Number(), localeCompare and toFixed    *)
(* are computed character by character.  Numbers are the non-negative      *)
(* integers and the quotients of two of them (an average, a percentage).   *)
(***************************************************************************)
EXTENDS Integers, Sequences, FiniteSets, TLC

(***************************************************************************)
(* Bounds of the model.                                                    *)
(***************************************************************************)
\* The longest table drawn from GenericRows.
MaxRows == 3

(***************************************************************************)
(* Strings.                                                                *)
(***************************************************************************)
DigitChars == <<"0", "1", "2", "3", "4", "5", "6", "7", "8", "9">>

LowerChars == <<"a", "b", "c", "d", "e", "f", "g", "h", "i", "j", "k", "l", "m", "n", "o", "p", "q", "r", "s", "t", "u", "v", "w", "x", "y", "z">>

UpperChars == <<"A", "B", "C", "D", "E", "F", "G", "H", "I", "J", "K", "L", "M", "N", "O", "P", "Q", "R", "S", "T", "U", "V", "W", "X", "Y", "Z">>

\* The position of character c in the sequence chars, 0 if it is not there.
IndexOf(chars, c) ==
  IF \E i \in 1..Len(chars) : chars[i] = c
  THEN CHOOSE i \in 1..Len(chars) : chars[i] = c
  ELSE 0

IsDigit(c) == IndexOf(DigitChars, c) # 0

IsUpper(c) == IndexOf(UpperChars, c) # 0

\* String.prototype.toLowerCase, one character.
LowerChar(c) == IF IsUpper(c) THEN LowerChars[IndexOf(UpperChars, c)] ELSE c

\* String.prototype.toLowerCase.
ToLowerCase(s) == [i \in 1..Len(s) |-> LowerChar(s[i])]

\* String.prototype.includes: sub occurs in s as a contiguous substring.
Includes(s, sub) ==
  \E i \in 1..(Len(s) - Len(sub) + 1) : SubSeq(s, i, i + Len(sub) - 1) = sub

\* The decimal digits of the natural number n (String(n) for such an n).
RECURSIVE NatToString(_)
NatToString(n) ==
  IF n < 10 THEN <<DigitChars[n + 1]>>
  ELSE NatToString(n \div 10) \o <<DigitChars[(n % 10) + 1]>>

\* The value of a non-empty sequence of decimal digits.
RECURSIVE DigitsValue(_)
DigitsValue(s) ==
  IF Len(s) = 0 THEN 0
  ELSE 10 * DigitsValue(SubSeq(s, 1, Len(s) - 1)) + (IndexOf(DigitChars, s[Len(s)]) - 1)

\* String.prototype.trim for the only white space of the model, the space.
RECURSIVE Trim(_)
Trim(s) ==
  IF Len(s) = 0 THEN s
  ELSE IF s[1] = " " THEN Trim(Tail(s))
  ELSE IF s[Len(s)] = " " THEN Trim(SubSeq(s, 1, Len(s) - 1))
  ELSE s

(***************************************************************************)
(* Cell values: what sheet_to_json puts in a row.  A key the row lacks     *)
(* reads as undefined.                                                     *)
(***************************************************************************)
Undefined == [t |-> "undefined", n |-> 0, s |-> <<>>]

Num(n) == [t |-> "number", n |-> n, s |-> <<>>]

Str(s) == [t |-> "string", n |-> 0, s |-> s]

Bool(b) == [t |-> "boolean", n |-> IF b THEN 1 ELSE 0, s |-> <<>>]

\* Not-a-Number, and a number num/den.
NaN == [nan |-> TRUE, num |-> 0, den |-> 1]

Quot(num, den) == [nan |-> FALSE, num |-> num, den |-> den]

\* Number(value): the numeric conversion of a cell.  A text converts when,
\* trimmed, it is empty (to 0) or all decimal digits; the texts of the model
\* have no sign, fraction, exponent or radix prefix.
Number(v) ==
  CASE v.t = "number" -> Quot(v.n, 1)
    [] v.t = "boolean" -> Quot(v.n, 1)
    [] v.t = "undefined" -> NaN
    [] v.t = "string" ->
         LET tr == Trim(v.s) IN
         IF \A i \in 1..Len(tr) : IsDigit(tr[i]) THEN Quot(DigitsValue(tr), 1) ELSE NaN

\* String(value): the text conversion of a cell.
String(v) ==
  CASE v.t = "number" -> NatToString(v.n)
    [] v.t = "boolean" -> IF v.n = 1 THEN <<"t", "r", "u", "e">> ELSE <<"f", "a", "l", "s", "e">>
    [] v.t = "undefined" -> <<"u", "n", "d", "e", "f", "i", "n", "e", "d">>
    [] v.t = "string" -> v.s

\* isNaN(x).
isNaN(x) == x.nan

\* The sign of x - y for two numbers that are not NaN: -1, 0 or 1.
NumCompare(x, y) ==
  LET l == x.num * y.den
      r == y.num * x.den
  IN IF l < r THEN -1 ELSE IF l > r THEN 1 ELSE 0

(***************************************************************************)
(* String.prototype.localeCompare, for texts of spaces, digits and         *)
(* letters, as the root collation orders them: the texts are compared      *)
(* first by their letters without case (space < digits < letters), and     *)
(* texts equal on that level by case, a lower-case letter before its       *)
(* upper-case letter.                                                      *)
(***************************************************************************)
PrimaryWeight(c) ==
  IF c = " " THEN 0
  ELSE IF IsDigit(c) THEN IndexOf(DigitChars, c)
  ELSE 10 + IndexOf(LowerChars, LowerChar(c))

TertiaryWeight(c) == IF IsUpper(c) THEN 1 ELSE 0

\* The sign of the lexicographic comparison of two sequences of weights.
RECURSIVE LexCompare(_, _)
LexCompare(a, b) ==
  IF Len(a) = 0 /\ Len(b) = 0 THEN 0
  ELSE IF Len(a) = 0 THEN -1
  ELSE IF Len(b) = 0 THEN 1
  ELSE IF a[1] < b[1] THEN -1
  ELSE IF a[1] > b[1] THEN 1
  ELSE LexCompare(Tail(a), Tail(b))

localeCompare(a, b) ==
  LET p == LexCompare([i \in 1..Len(a) |-> PrimaryWeight(a[i])],
                      [i \in 1..Len(b) |-> PrimaryWeight(b[i])])
  IN IF p # 0 THEN p
     ELSE LexCompare([i \in 1..Len(a) |-> TertiaryWeight(a[i])],
                     [i \in 1..Len(b) |-> TertiaryWeight(b[i])])

(***************************************************************************)
(* Rows and tables.  A row is a record over the sheet's header; the keys   *)
(* of a row are the header's columns the row has a cell for, in header     *)
(* order (no column name of the model is an integer index).                *)
(***************************************************************************)
Header == <<"status", "date">>

\* The text of a column's name.
ColumnName(col) ==
  CASE col = "status" -> <<"s", "t", "a", "t", "u", "s">>
    [] col = "date" -> <<"d", "a", "t", "e">>

Row(status, date) == [status |-> status, date |-> date]

\* Object.keys(row).
ObjectKeys(row) == SelectSeq(Header, LAMBDA col : row[col] # Undefined)

\* Object.values(row).
ObjectValues(row) == [i \in 1..Len(ObjectKeys(row)) |-> row[ObjectKeys(row)[i]]]

\* Object.keys(rows[i - 1]): a TypeError when the array has no such element.
TypeError == <<"TypeError">>

ObjectKeysAt(rows, i) ==
  IF i \in 1..Len(rows) THEN ObjectKeys(rows[i]) ELSE TypeError

(***************************************************************************)
(* processExcelQuery: the intent flags.                                    *)
(***************************************************************************)
FilterKeywords == {<<"f", "i", "l", "t", "e", "r">>, <<"s", "h", "o", "w">>, <<"o", "n", "l", "y">>, <<"w", "h", "i", "c", "h">>, <<"w", "h", "e", "r", "e">>}

SortKeywords == {<<"s", "o", "r", "t">>, <<"o", "r", "d", "e", "r", " ", "b", "y">>, <<"a", "r", "r", "a", "n", "g", "e">>}

SummarizeKeywords ==
  {<<"s", "u", "m", "m", "a", "r", "i", "z", "e">>, <<"s", "u", "m", "m", "a", "r", "y">>, <<"s", "t", "a", "t", "s">>, <<"s", "t", "a", "t", "i", "s", "t", "i", "c", "s">>, <<"c", "o", "u", "n", "t">>}

DescendingKeywords ==
  {<<"d", "e", "s", "c", "e", "n", "d", "i", "n", "g">>, <<"d", "e", "s", "c">>, <<"h", "i", "g", "h", " ", "t", "o", " ", "l", "o", "w">>, <<"l", "a", "r", "g", "e", "s", "t">>, <<"h", "i", "g", "h", "e", "s", "t">>}

\* The vocabulary with the longer of two overlapping terms first.
commonValuesNotOkFirst ==
  <<<<"n", "o", "t", " ", "o", "k">>, <<"o", "k">>, <<"y", "e", "s">>, <<"n", "o">>, <<"t", "r", "u", "e">>, <<"f", "a", "l", "s", "e">>, <<"p", "a", "s", "s">>, <<"f", "a", "i", "l">>>>

commonValues ==
  <<<<"o", "k">>, <<"n", "o", "t", " ", "o", "k">>, <<"y", "e", "s">>, <<"n", "o">>, <<"t", "r", "u", "e">>, <<"f", "a", "l", "s", "e">>, <<"p", "a", "s", "s">>, <<"f", "a", "i", "l">>>>

isFilterQuery(queryLower) == \E k \in FilterKeywords : Includes(queryLower, k)

isSortQuery(queryLower) == \E k \in SortKeywords : Includes(queryLower, k)

isSummarizeQuery(queryLower) == \E k \in SummarizeKeywords : Includes(queryLower, k)

\* Descending only for the whole word.
isDescendingWholeWord(queryLower) == Includes(queryLower, <<"d", "e", "s", "c", "e", "n", "d", "i", "n", "g">>)

isDescending(queryLower) == \E k \in DescendingKeywords : Includes(queryLower, k)

(***************************************************************************)
(* The default search: the rows with a cell whose lower-cased text          *)
(* contains the lower-cased query.                                         *)
(***************************************************************************)
\* The default search comparing the cells' text as it is, not lower-cased.
DefaultSearchCaseSensitive(data, queryLower) ==
  LET Matches(row) ==
        \E i \in 1..Len(ObjectValues(row)) :
          Includes(String(ObjectValues(row)[i]), queryLower)
  IN SelectSeq(data, Matches)

DefaultSearch(data, queryLower) ==
  LET Matches(row) ==
        \E i \in 1..Len(ObjectValues(row)) :
          Includes(ToLowerCase(String(ObjectValues(row)[i])), queryLower)
  IN SelectSeq(data, Matches)

(***************************************************************************)
(* Column and value resolution.                                            *)
(***************************************************************************)
\* The columns read from the first row without looking whether there is one.
ColumnsUnguarded(data) == ObjectKeysAt(data, 1)

\* The columns of the table: the keys of its first row, none for no rows.
Columns(data) == IF Len(data) > 0 THEN ObjectKeysAt(data, 1) ELSE <<>>

\* The first column whose lower-cased name the query contains, "" if none.
\* The last column of the row whose name the query holds, not the first.
FindColumnLastMatch(columns, queryLower) ==
  LET hits == SelectSeq(columns,
                LAMBDA col : Includes(queryLower, ToLowerCase(ColumnName(col))))
  IN IF Len(hits) > 0 THEN hits[Len(hits)] ELSE ""

FindColumn(columns, queryLower) ==
  LET hits == SelectSeq(columns,
                LAMBDA col : Includes(queryLower, ToLowerCase(ColumnName(col))))
  IN IF Len(hits) > 0 THEN hits[1] ELSE ""

valueMatches(queryLower) ==
  SelectSeq(commonValues, LAMBDA val : Includes(queryLower, val))

\* The last vocabulary term the query holds, not the first.
TargetValueLastMatch(queryLower) ==
  IF Len(valueMatches(queryLower)) > 0
  THEN valueMatches(queryLower)[Len(valueMatches(queryLower))] ELSE <<>>

\* The target value of a filter query, <<>> (the empty text) if none.
TargetValue(queryLower) ==
  IF Len(valueMatches(queryLower)) > 0 THEN valueMatches(queryLower)[1] ELSE <<>>

(***************************************************************************)
(* The filter stage: matchingRows after the isFilterQuery block.           *)
(***************************************************************************)
\* The filter stage matching the value anywhere in the cell's text.
FilterStageSubstring(data, matchingRows, queryLower) ==
  IF ~isFilterQuery(queryLower) THEN matchingRows
  ELSE
    LET targetColumn == FindColumn(Columns(data), queryLower)
        targetValue == TargetValue(queryLower)
        AnyContains(row) ==
          \E i \in 1..Len(ObjectValues(row)) :
            Includes(ToLowerCase(String(ObjectValues(row)[i])), targetValue)
        ColumnContains(row) ==
          Includes(ToLowerCase(String(row[targetColumn])), targetValue)
        NonEmpty(row) ==
          row[targetColumn] # Undefined /\ row[targetColumn] # Str(<<>>)
    IN IF Len(valueMatches(queryLower)) > 0
       THEN IF targetColumn = "" THEN SelectSeq(data, AnyContains)
            ELSE SelectSeq(data, ColumnContains)
       ELSE IF targetColumn # "" THEN SelectSeq(data, NonEmpty)
       ELSE matchingRows

\* The filter stage filtering the rows of the default search, not the table.
FilterStageNarrowing(data, matchingRows, queryLower) ==
  IF ~isFilterQuery(queryLower) THEN matchingRows
  ELSE
    LET targetColumn == FindColumn(Columns(data), queryLower)
        targetValue == TargetValue(queryLower)
        AnyEquals(row) ==
          \E i \in 1..Len(ObjectValues(row)) :
            ToLowerCase(String(ObjectValues(row)[i])) = targetValue
        ColumnEquals(row) == ToLowerCase(String(row[targetColumn])) = targetValue
        NonEmpty(row) ==
          row[targetColumn] # Undefined /\ row[targetColumn] # Str(<<>>)
    IN IF Len(valueMatches(queryLower)) > 0
       THEN IF targetColumn = "" THEN SelectSeq(matchingRows, AnyEquals)
            ELSE SelectSeq(matchingRows, ColumnEquals)
       ELSE IF targetColumn # "" THEN SelectSeq(matchingRows, NonEmpty)
       ELSE matchingRows

\* The filter stage keeping the rows whose cell is the empty text.
FilterStageKeepsEmptyText(data, matchingRows, queryLower) ==
  IF ~isFilterQuery(queryLower) THEN matchingRows
  ELSE
    LET targetColumn == FindColumn(Columns(data), queryLower)
        targetValue == TargetValue(queryLower)
        AnyEquals(row) ==
          \E i \in 1..Len(ObjectValues(row)) :
            ToLowerCase(String(ObjectValues(row)[i])) = targetValue
        ColumnEquals(row) == ToLowerCase(String(row[targetColumn])) = targetValue
        Present(row) == row[targetColumn] # Undefined
    IN IF Len(valueMatches(queryLower)) > 0
       THEN IF targetColumn = "" THEN SelectSeq(data, AnyEquals)
            ELSE SelectSeq(data, ColumnEquals)
       ELSE IF targetColumn # "" THEN SelectSeq(data, Present)
       ELSE matchingRows

\* The filter stage giving the whole table when it resolves nothing.
FilterStageUnresolvedGivesTable(data, matchingRows, queryLower) ==
  IF ~isFilterQuery(queryLower) THEN matchingRows
  ELSE
    LET targetColumn == FindColumn(Columns(data), queryLower)
        targetValue == TargetValue(queryLower)
        AnyEquals(row) ==
          \E i \in 1..Len(ObjectValues(row)) :
            ToLowerCase(String(ObjectValues(row)[i])) = targetValue
        ColumnEquals(row) == ToLowerCase(String(row[targetColumn])) = targetValue
        NonEmpty(row) ==
          row[targetColumn] # Undefined /\ row[targetColumn] # Str(<<>>)
    IN IF Len(valueMatches(queryLower)) > 0
       THEN IF targetColumn = "" THEN SelectSeq(data, AnyEquals)
            ELSE SelectSeq(data, ColumnEquals)
       ELSE IF targetColumn # "" THEN SelectSeq(data, NonEmpty)
       ELSE data

FilterStage(data, matchingRows, queryLower) ==
  IF ~isFilterQuery(queryLower) THEN matchingRows
  ELSE
    LET targetColumn == FindColumn(Columns(data), queryLower)
        targetValue == TargetValue(queryLower)
        AnyEquals(row) ==
          \E i \in 1..Len(ObjectValues(row)) :
            ToLowerCase(String(ObjectValues(row)[i])) = targetValue
        ColumnEquals(row) == ToLowerCase(String(row[targetColumn])) = targetValue
        NonEmpty(row) ==
          row[targetColumn] # Undefined /\ row[targetColumn] # Str(<<>>)
    IN IF Len(valueMatches(queryLower)) > 0
       THEN IF targetColumn = "" THEN SelectSeq(data, AnyEquals)
            ELSE SelectSeq(data, ColumnEquals)
       ELSE IF targetColumn # "" THEN SelectSeq(data, NonEmpty)
       ELSE matchingRows

(***************************************************************************)
(* The sort stage.                                                         *)
(***************************************************************************)
\* The comparator of the sort: the sign of its result for rows a and b.
SortCompare(a, b, sortColumn, descending) ==
  LET valA == a[sortColumn]
      valB == b[sortColumn]
  IN IF ~isNaN(Number(valA)) /\ ~isNaN(Number(valB))
     THEN IF descending THEN NumCompare(Number(valB), Number(valA))
          ELSE NumCompare(Number(valA), Number(valB))
     ELSE IF descending THEN localeCompare(String(valB), String(valA))
          ELSE localeCompare(String(valA), String(valB))

\* The elements of a sequence.
Range(seq) == {seq[i] : i \in 1..Len(seq)}

\* A consistent comparator for the rows (ECMAScript, Array.prototype.sort):
\* equality and the two strict orders are transitive, equality is reflexive
\* and symmetric.
ConsistentComparator(rows, cmp) ==
  LET elements == Range(rows)
      results == {<<a, b, cmp[a, b]>> : a, b \in elements}
      Equal(a, b) == <<a, b, 0>> \in results
      Below(a, b) == \E r \in results : r[1] = a /\ r[2] = b /\ r[3] < 0
      Above(a, b) == \E r \in results : r[1] = a /\ r[2] = b /\ r[3] > 0
  IN /\ \A a \in elements : Equal(a, a)
     /\ \A a, b \in elements : Equal(a, b) => Equal(b, a)
     /\ \A a, b, c \in elements :
          /\ (Equal(a, b) /\ Equal(b, c)) => Equal(a, c)
          /\ (Below(a, b) /\ Below(b, c)) => Below(a, c)
          /\ (Above(a, b) /\ Above(b, c)) => Above(a, c)

\* seq with x inserted after the last element that does not compare above it.
RECURSIVE InsertSorted(_, _, _)
InsertSorted(seq, x, cmp) ==
  IF Len(seq) = 0 THEN <<x>>
  ELSE IF cmp[seq[Len(seq)], x] <= 0 THEN Append(seq, x)
  ELSE Append(InsertSorted(SubSeq(seq, 1, Len(seq) - 1), x, cmp), seq[Len(seq)])

\* The stable sort of rows by a consistent comparator, given as the function
\* cmp[a, b] over the elements of rows.
RECURSIVE StableSort(_, _)
StableSort(rows, cmp) ==
  IF Len(rows) = 0 THEN <<>>
  ELSE InsertSorted(StableSort(SubSeq(rows, 1, Len(rows) - 1), cmp), rows[Len(rows)], cmp)

\* The orders of the elements of seq.
Reorderings(seq) ==
  {[i \in 1..Len(seq) |-> seq[p[i]]] :
     p \in {f \in [1..Len(seq) -> 1..Len(seq)] :
              \A i, j \in 1..Len(seq) : i # j => f[i] # f[j]}}

\* [...rows].sort(Cmp): the orders the sort can return.  It is stable for a
\* consistent comparator; for any other the order is implementation-defined.
ArraySort(rows, cmp) ==
  IF ConsistentComparator(rows, cmp) THEN {StableSort(rows, cmp)}
  ELSE Reorderings(rows)

\* The sort column as the last column of the row the query names.
SortColumnLastMatch(data, queryLower) ==
  IF isSortQuery(queryLower) THEN FindColumnLastMatch(Columns(data), queryLower) ELSE ""

\* The column of the sort, "" without sort intent or when no column is named.
SortColumn(data, queryLower) ==
  IF isSortQuery(queryLower) THEN FindColumn(Columns(data), queryLower) ELSE ""

\* matchingRows after the isSortQuery block: the orders it can have.
SortStage(data, matchingRows, queryLower) ==
  LET sortColumn == SortColumn(data, queryLower)
      descending == isDescending(queryLower)
      cmp == [a, b \in Range(matchingRows) |-> SortCompare(a, b, sortColumn, descending)]
  IN IF sortColumn = "" THEN {matchingRows} ELSE ArraySort(matchingRows, cmp)

(***************************************************************************)
(* generateSummary.                                                        *)
(***************************************************************************)
\* rows.length above which a result is summarised without being asked.
SummaryThreshold == 10

\* The most distinct texts a column can have and still get a distribution.
MaxUniqueValues == 10

\* The number of values a distribution line lists.
TopEntries == 3

\* Number.prototype.toFixed(digits) of num/den >= 0: rounded to the nearest,
\* a tie to the larger (the quotients of the model whose tie is exact in
\* decimal are exact in binary too).
RECURSIVE Pow10(_)
Pow10(k) == IF k = 0 THEN 1 ELSE 10 * Pow10(k - 1)

RECURSIVE PadLeft(_, _)
PadLeft(s, width) == IF Len(s) >= width THEN s ELSE PadLeft(<<"0">> \o s, width)

toFixed(x, digits) ==
  LET scaled == (2 * x.num * Pow10(digits) + x.den) \div (2 * x.den)
  IN NatToString(scaled \div Pow10(digits))
       \o <<".">>
       \o PadLeft(NatToString(scaled % Pow10(digits)), digits)

\* Array.prototype.join.
RECURSIVE Join(_, _)
Join(parts, sep) ==
  IF Len(parts) = 0 THEN <<>>
  ELSE IF Len(parts) = 1 THEN parts[1]
  ELSE parts[1] \o sep \o Join(Tail(parts), sep)

\* rows.map(row => Number(row[col])).filter(val => !isNaN(val))
NumericValues(rows, col) ==
  SelectSeq([i \in 1..Len(rows) |-> Number(rows[i][col])], LAMBDA val : ~isNaN(val))

RECURSIVE SumOf(_)
SumOf(values) == IF Len(values) = 0 THEN 0 ELSE values[1].num + SumOf(Tail(values))

\* numericStats[col]: min, max, sum and avg of the column's numeric values.
NumericStats(rows, col) ==
  LET values == NumericValues(rows, col)
      nums == {values[i].num : i \in 1..Len(values)}
  IN [min |-> Quot(CHOOSE m \in nums : \A n \in nums : m <= n, 1),
      max |-> Quot(CHOOSE m \in nums : \A n \in nums : m >= n, 1),
      sum |-> Quot(SumOf(values), 1),
      avg |-> Quot(SumOf(values), Len(values))]

\* The columns that get a line of numeric statistics, in column order.
NumericColumns(rows) ==
  SelectSeq(ObjectKeys(rows[1]), LAMBDA col : Len(NumericValues(rows, col)) > 0)

NumericLine(rows, col) ==
  LET stats == NumericStats(rows, col)
  IN ColumnName(col) \o <<":", " ", "M", "i", "n", "=">> \o toFixed(stats.min, 2)
       \o <<",", " ", "M", "a", "x", "=">> \o toFixed(stats.max, 2)
       \o <<",", " ", "A", "v", "g", "=">> \o toFixed(stats.avg, 2)

\* The texts of the column's cells, row by row.
CellTexts(rows, col) == [i \in 1..Len(rows) |-> String(rows[i][col])]

\* The elements of seq, each once, in the order of their first occurrence.
RECURSIVE Distinct(_)
Distinct(seq) ==
  IF Len(seq) = 0 THEN <<>>
  ELSE LET front == Distinct(SubSeq(seq, 1, Len(seq) - 1))
       IN IF seq[Len(seq)] \in Range(front) THEN front ELSE Append(front, seq[Len(seq)])

\* A property key that is an array index: the canonical decimal text of a
\* natural number (those of the model are far below 2^32 - 1).
IsArrayIndex(key) ==
  /\ Len(key) > 0
  /\ \A i \in 1..Len(key) : IsDigit(key[i])
  /\ NatToString(DigitsValue(key)) = key

\* The keys of an object whose properties were created in the order of
\* created: the array indices in ascending numeric order, then the other
\* keys in creation order.
OwnPropertyKeys(created) ==
  LET ascending == [a, b \in Range(created) |-> DigitsValue(a) - DigitsValue(b)]
  IN StableSort(SelectSeq(created, IsArrayIndex), ascending)
       \o SelectSeq(created, LAMBDA key : ~IsArrayIndex(key))

\* categoricalStats[col][val]: the number of rows whose cell has the text val.
CountOf(rows, col, val) ==
  Cardinality({i \in 1..Len(rows) : String(rows[i][col]) = val})

\* Object.entries(counts).sort((a, b) => b[1] - a[1]).slice(0, 3): the texts.
TopValues(rows, col) ==
  LET entries == OwnPropertyKeys(Distinct(CellTexts(rows, col)))
      byCount == [a, b \in Range(entries) |->
                    CountOf(rows, col, b) - CountOf(rows, col, a)]
      sorted == StableSort(entries, byCount)
  IN SubSeq(sorted, 1, IF Len(sorted) < TopEntries THEN Len(sorted) ELSE TopEntries)

\* The columns that get a distribution line, in column order.
CategoricalColumns(rows) ==
  SelectSeq(ObjectKeys(rows[1]),
    LAMBDA col : Cardinality(Range(CellTexts(rows, col))) <= MaxUniqueValues)

\* A distribution entry whose percentage is cut after one decimal, not rounded.
DistributionEntryTruncated(rows, col, val) ==
  val \o <<":", " ">> \o NatToString(CountOf(rows, col, val))
      \o <<" ", "(">> \o NatToString((CountOf(rows, col, val) * 100) \div Len(rows))
      \o <<".">>
      \o NatToString(((CountOf(rows, col, val) * 1000) \div Len(rows)) % 10) \o <<"%", ")">>

DistributionEntry(rows, col, val) ==
  val \o <<":", " ">> \o NatToString(CountOf(rows, col, val))
      \o <<" ", "(">> \o toFixed(Quot(CountOf(rows, col, val) * 100, Len(rows)), 1) \o <<"%", ")">>

DistributionLine(rows, col) ==
  LET top == TopValues(rows, col)
  IN ColumnName(col) \o <<" ", "d", "i", "s", "t", "r", "i", "b", "u", "t", "i", "o", "n", ":", " ">>
       \o Join([i \in 1..Len(top) |-> DistributionEntry(rows, col, top[i])], <<",", " ">>)

\* The lines of a summary.
SummaryLines(rows) ==
  LET numeric == NumericColumns(rows)
      categorical == CategoricalColumns(rows)
  IN <<<<"T", "o", "t", "a", "l", " ", "r", "o", "w", "s", ":", " ">> \o NatToString(Len(rows))>>
       \o [i \in 1..Len(numeric) |-> NumericLine(rows, numeric[i])]
       \o [i \in 1..Len(categorical) |-> DistributionLine(rows, categorical[i])]

\* A summary that is also written for exactly SummaryThreshold rows.
generateSummaryFromThreshold(rows, forceSummarize) ==
  IF Len(rows) = 0 THEN <<"N", "o", " ", "d", "a", "t", "a", " ", "a", "v", "a", "i", "l", "a", "b", "l", "e", " ", "f", "o", "r", " ", "s", "u", "m", "m", "a", "r", "y", ".">>
  ELSE IF forceSummarize \/ Len(rows) >= SummaryThreshold
       THEN Join(SummaryLines(rows), <<"<", "b", "r", ">">>)
       ELSE <<>>

\* A summary that is the empty text when there is no row.
generateSummaryEmptyForNoRows(rows, forceSummarize) ==
  IF Len(rows) > 0 /\ (forceSummarize \/ Len(rows) > SummaryThreshold)
  THEN Join(SummaryLines(rows), <<"<", "b", "r", ">">>)
  ELSE <<>>

generateSummary(rows, forceSummarize) ==
  IF Len(rows) = 0 THEN <<"N", "o", " ", "d", "a", "t", "a", " ", "a", "v", "a", "i", "l", "a", "b", "l", "e", " ", "f", "o", "r", " ", "s", "u", "m", "m", "a", "r", "y", ".">>
  ELSE IF forceSummarize \/ Len(rows) > SummaryThreshold
       THEN Join(SummaryLines(rows), <<"<", "b", "r", ">">>)
       ELSE <<>>

(***************************************************************************)
(* processExcelQuery.                                                      *)
(***************************************************************************)
\* excelData when no table is loaded.
null == [loaded |-> FALSE, data |-> <<>>]

ExcelData(data) == [loaded |-> TRUE, data |-> data]

\* What a call returns, and a call that throws instead.
Result(rows, summary) == [rows |-> rows, summary |-> summary, error |-> FALSE]

Thrown == [rows |-> <<>>, summary |-> <<>>, error |-> TRUE]

\* A call that sorts only when it does not filter.
processExcelQueryExclusive(table, queryText) ==
  IF table = null \/ queryText = <<>>
  THEN {Result(<<>>, <<"N", "o", " ", "d", "a", "t", "a", " ", "a", "v", "a", "i", "l", "a", "b", "l", "e">>)}
  ELSE
    LET queryLower == ToLowerCase(queryText)
        data == table.data
        matchingRows == DefaultSearch(data, queryLower)
    IN IF (isFilterQuery(queryLower) \/ isSortQuery(queryLower))
            /\ Columns(data) = TypeError
       THEN {Thrown}
       ELSE {Result(rows, generateSummary(rows, isSummarizeQuery(queryLower))) :
               rows \in IF isFilterQuery(queryLower)
                        THEN {FilterStage(data, matchingRows, queryLower)}
                        ELSE SortStage(data, matchingRows, queryLower)}

\* The results a call of processExcelQuery(query) can have.
processExcelQuery(table, queryText) ==
  IF table = null \/ queryText = <<>>
  THEN {Result(<<>>, <<"N", "o", " ", "d", "a", "t", "a", " ", "a", "v", "a", "i", "l", "a", "b", "l", "e">>)}
  ELSE
    LET queryLower == ToLowerCase(queryText)
        data == table.data
        matchingRows == DefaultSearch(data, queryLower)
    IN IF (isFilterQuery(queryLower) \/ isSortQuery(queryLower))
            /\ Columns(data) = TypeError
       THEN {Thrown}
       ELSE {Result(rows, generateSummary(rows, isSummarizeQuery(queryLower))) :
               rows \in SortStage(data, FilterStage(data, matchingRows, queryLower),
                                  queryLower)}

(***************************************************************************)
(* The tables and the queries of the model.                                *)
(***************************************************************************)
\* The rows the tables of up to MaxRows rows are made of: texts that differ
\* in case only, a text that contains another, texts of equal numeric value,
\* a text that is no number, a number, an empty text and absent cells.
GenericRows ==
  { Row(Str(<<"O", "K">>), Str(<<"1">>)),
    Row(Str(<<"o", "k">>), Str(<<"0", "1">>)),
    Row(Str(<<"F", "A", "I", "L">>), Str(<<"0", "a">>)),
    Row(Str(<<"O", "K">>), Num(10)),
    Row(Str(<<"o", "k", "a", "y">>), Str(<<>>)),
    Row(Undefined, Num(2)),
    Row(Str(<<"O", "K">>), Undefined) }

RECURSIVE SeqsUpTo(_, _)
SeqsUpTo(S, n) ==
  IF n = 0 THEN {<<>>}
  ELSE LET shorter == SeqsUpTo(S, n - 1)
       IN shorter \cup {Append(seq, x) : seq \in shorter, x \in S}

\* The sequences of up to n different elements of S.
RECURSIVE DistinctSeqsUpTo(_, _)
DistinctSeqsUpTo(S, n) ==
  IF n = 0 THEN {<<>>}
  ELSE LET shorter == DistinctSeqsUpTo(S, n - 1)
       IN shorter \cup UNION {{Append(seq, x) : x \in S \ Range(seq)} : seq \in shorter}

RECURSIVE Repeat(_, _)
Repeat(x, n) == IF n = 0 THEN <<>> ELSE <<x>> \o Repeat(x, n - 1)

\* A status column of OK, OK, FAIL with a date column of year texts.
StatusTable ==
  << Row(Str(<<"O", "K">>), Str(<<"2", "0", "2", "3">>)),
     Row(Str(<<"O", "K">>), Str(<<"2", "0", "2", "1">>)),
     Row(Str(<<"F", "A", "I", "L">>), Str(<<"2", "0", "2", "2">>)) >>

\* A column of 10, 20, "abc", 30.
MixedTable ==
  << Row(Str(<<"O", "K">>), Num(10)),
     Row(Str(<<"O", "K">>), Num(20)),
     Row(Str(<<"O", "K">>), Str(<<"a", "b", "c">>)),
     Row(Str(<<"O", "K">>), Num(30)) >>

\* Ten rows, seven OK and three FAIL.
TenRowTable ==
  Repeat(Row(Str(<<"O", "K">>), Num(10)), 7) \o Repeat(Row(Str(<<"F", "A", "I", "L">>), Num(20)), 3)

\* Eleven rows.
ElevenRowTable == TenRowTable \o <<Row(Str(<<"F", "A", "I", "L">>), Num(30))>>

\* A date column of "9", "10", "1a": 9 is below 10 as a number, "10" below
\* "1a" and "1a" below "9" as texts.
CycleTable ==
  << Row(Str(<<"O", "K">>), Str(<<"9">>)),
     Row(Str(<<"O", "K">>), Str(<<"1", "0">>)),
     Row(Str(<<"O", "K">>), Str(<<"1", "a">>)) >>

\* A cell that holds a whole filter query, in a table without a date column.
QueryCellTable ==
  << Row(Str(<<"s", "h", "o", "w", " ", "d", "a", "t", "e">>), Undefined),
     Row(Str(<<"O", "K">>), Undefined) >>

\* A status column of "not ok" and "OK".
NotOkTable ==
  << Row(Str(<<"n", "o", "t", " ", "o", "k">>), Str(<<"1">>)),
     Row(Str(<<"O", "K">>), Str(<<"2">>)) >>

ScenarioTables ==
  { StatusTable, MixedTable, TenRowTable, ElevenRowTable, CycleTable, QueryCellTable,
    NotOkTable }

Tables == DistinctSeqsUpTo(GenericRows, MaxRows) \cup ScenarioTables

\* The three queries the page suggests.
QueryShowStatusOK == <<"S", "h", "o", "w", " ", "m", "e", " ", "a", "l", "l", " ", "r", "o", "w", "s", " ", "w", "h", "e", "r", "e", " ", "s", "t", "a", "t", "u", "s", " ", "i", "s", " ", "O", "K">>

QuerySortByDateDescending == <<"S", "o", "r", "t", " ", "b", "y", " ", "d", "a", "t", "e", " ", "d", "e", "s", "c", "e", "n", "d", "i", "n", "g">>

QuerySummarize == <<"S", "u", "m", "m", "a", "r", "i", "z", "e", " ", "t", "h", "e", " ", "d", "a", "t", "a">>

\* Typed queries: two plain searches, filters by column with a sort, a
\* filter by column and value with a sort, a filter with a summary.
QueryOk == <<"o", "k">>

QueryOne == <<"1">>

QueryShowDateSort == <<"s", "h", "o", "w", " ", "d", "a", "t", "e", " ", "s", "o", "r", "t">>

QueryShowDateSortDesc == <<"s", "h", "o", "w", " ", "d", "a", "t", "e", " ", "s", "o", "r", "t", " ", "d", "e", "s", "c">>

QueryShowStatusOkSort == <<"s", "h", "o", "w", " ", "s", "t", "a", "t", "u", "s", " ", "o", "k", " ", "s", "o", "r", "t">>

QueryShowStatusCount == <<"s", "h", "o", "w", " ", "s", "t", "a", "t", "u", "s", " ", "c", "o", "u", "n", "t">>

\* A filter by column alone, a filter by a value alone in a query that
\* holds three vocabulary terms, and a filter that names both columns, the
\* later column of the table first.
QueryShowDate == <<"s", "h", "o", "w", " ", "d", "a", "t", "e">>

QueryWhereNotOk == <<"w", "h", "e", "r", "e", " ", "n", "o", "t", " ", "o", "k">>

QueryShowDateStatus == <<"s", "h", "o", "w", " ", "d", "a", "t", "e", " ", "s", "t", "a", "t", "u", "s">>

\* A query with the three intents that names both columns.
QueryShowDateStatusSortCount == <<"s", "h", "o", "w", " ", "d", "a", "t", "e", " ", "s", "t", "a", "t", "u", "s", " ", "s", "o", "r", "t", " ", "c", "o", "u", "n", "t">>

Queries ==
  { <<>>, QueryShowDateStatusSortCount, QueryShowStatusOK, QuerySortByDateDescending, QuerySummarize, QueryOk,
    QueryOne, QueryShowDateSort, QueryShowDateSortDesc, QueryShowStatusOkSort,
    QueryShowStatusCount, QueryShowDate, QueryWhereNotOk, QueryShowDateStatus }

(***************************************************************************)
(* The state: the table and the query of a call, what the call gave, the   *)
(* calls made so far, and the orders Array.prototype.sort has given so     *)
(* far where the order is implementation-defined; the files uploaded, the  *)
(* file and the sheet selected, and the file reads that have not finished; *)
(* the chat history and the loading flag of the page.                      *)
(***************************************************************************)
VARIABLES excelData, query, result, pc, calls, sortOrders,
          excelFiles, selectedFile, selectedSheet, reads,
          chatHistory, loading

vars == <<excelData, query, result, pc, calls, sortOrders,
          excelFiles, selectedFile, selectedSheet, reads,
          chatHistory, loading>>

\* The state the query engine leaves alone, and the state the file handlers
\* leave alone.
fileVars == <<excelFiles, selectedFile, selectedSheet, reads>>

queryVars == <<query, result, pc, calls, sortOrders>>

chatVars == <<chatHistory, loading>>

NoResult == Result(<<>>, <<>>)

\* The calls after which the model stops typing new queries.
MaxCalls == 3

\* const result = processExcelQuery(currentQuery): the function reads the
\* table of the state and the query it is given, and nothing else.
QueryResultsWithinLast ==
  processExcelQuery(IF result.rows # <<>> THEN ExcelData(result.rows) ELSE excelData, query)

QueryResults == processExcelQuery(excelData, query)

\* The table after a call that returned rows: the stages filter into new
\* arrays and sort a copy, [...matchingRows], so the table is as it was.
TableAfterQuerySortedInPlace(table, rows) ==
  IF Len(rows) = Len(table.data) THEN [table EXCEPT !.data = rows] ELSE table

TableAfterQuery(table, rows) == table

\* The sort a call on the table and the query of the state makes: the rows
\* the sort stage is given, the column and the direction.
SortCall ==
  [ input |-> FilterStage(excelData.data,
                          DefaultSearch(excelData.data, ToLowerCase(query)),
                          ToLowerCase(query)),
    column |-> SortColumn(excelData.data, ToLowerCase(query)),
    descending |-> isDescending(ToLowerCase(query)) ]

\* The call of the state throws, or sorts nothing.
NoSortCall ==
  \/ Columns(excelData.data) = TypeError
  \/ SortColumn(excelData.data, ToLowerCase(query)) = ""

\* An engine sorts the same rows with the same comparator into the same
\* order each time: rows is the order it gave before, if it gave one.
SameEngineOrder(rows) ==
  NoSortCall \/ \A order \in sortOrders : order.call = SortCall => order.rows = rows

Init ==
  /\ excelData \in {null} \cup {ExcelData(data) : data \in Tables}
  /\ query \in Queries
  /\ result = NoResult
  /\ pc = "call"
  /\ calls = <<>>
  /\ sortOrders = {}
  /\ excelFiles = <<>> /\ selectedFile = "" /\ selectedSheet = "" /\ reads = <<>>
  /\ chatHistory = <<>> /\ loading = FALSE

\* const result = processExcelQuery(currentQuery), which chatWithExcel reaches
\* with a table loaded and a query typed.
ProcessExcelQuery ==
  /\ pc = "call"
  /\ excelData # null /\ query # <<>>
  /\ \E returned \in QueryResults :
       /\ SameEngineOrder(returned.rows)
       /\ result' = returned
       /\ excelData' = TableAfterQuery(excelData, returned.rows)
       /\ calls' = Append(calls, [table |-> excelData, query |-> query, result |-> returned])
       /\ sortOrders' =
            IF NoSortCall THEN sortOrders
            ELSE sortOrders \cup {[call |-> SortCall, rows |-> returned.rows]}
  /\ pc' = "done"
  /\ UNCHANGED <<query, fileVars, chatVars>>

Next == ProcessExcelQuery

Spec == Init /\ [][Next]_vars

(***************************************************************************)
(* Calls one after another on one table: the user types the next query     *)
(* when a call has returned.                                               *)
(***************************************************************************)
\* The rows of the tables: texts of equal numeric value next to a text that
\* is no number, and a text that contains another.
RepeatRows ==
  { Row(Str(<<"O", "K">>), Str(<<"1">>)),
    Row(Str(<<"o", "k">>), Str(<<"0", "1">>)),
    Row(Str(<<"F", "A", "I", "L">>), Str(<<"0", "a">>)),
    Row(Str(<<"o", "k", "a", "y">>), Str(<<>>)) }

RepeatTables == DistinctSeqsUpTo(RepeatRows, MaxRows)

RepeatQueries == {QueryOk, QueryOne, QueryShowDateSort}

InitRepeat ==
  /\ excelData \in {ExcelData(data) : data \in RepeatTables}
  /\ query \in RepeatQueries
  /\ result = NoResult
  /\ pc = "call"
  /\ calls = <<>>
  /\ sortOrders = {}
  /\ excelFiles = <<>> /\ selectedFile = "" /\ selectedSheet = "" /\ reads = <<>>
  /\ chatHistory = <<>> /\ loading = FALSE

\* onChange={(e) => setQuery(e.target.value)}
SetQuery ==
  /\ pc = "done"
  /\ Len(calls) < MaxCalls
  /\ \E typed \in RepeatQueries : query' = typed
  /\ pc' = "call"
  /\ UNCHANGED <<excelData, result, calls, sortOrders, fileVars, chatVars>>

NextRepeat == ProcessExcelQuery \/ SetQuery

SpecRepeat == InitRepeat /\ [][NextRepeat]_vars


(***************************************************************************)
(* The files of the page: uploads, selections, sheet switches, removals    *)
(* and the FileReader loads they start, which end in any order.            *)
(***************************************************************************)
\* The files a user has: a workbook of two sheets, one of one sheet and one
\* without a sheet.
Files == {"a.xlsx", "b.xlsx", "c.xlsx"}

\* workbook.SheetNames
SheetNames(file) ==
  CASE file = "a.xlsx" -> <<"Sheet1", "Sheet2">>
    [] file = "b.xlsx" -> <<"Data">>
    [] OTHER -> <<>>

\* XLSX.utils.sheet_to_json(workbook.Sheets[sheet]): the rows of the sheet,
\* and no rows for a sheet the workbook has not.
sheet_to_json(file, sheet) ==
  CASE file = "a.xlsx" /\ sheet = "Sheet1" -> <<Row(Str(<<"O", "K">>), Str(<<"1">>))>>
    [] file = "a.xlsx" /\ sheet = "Sheet2" -> <<Row(Str(<<"F", "A", "I", "L">>), Str(<<"0", "a">>))>>
    [] file = "b.xlsx" /\ sheet = "Data" -> <<Row(Str(<<"o", "k">>), Str(<<"0", "1">>))>>
    [] OTHER -> <<>>

\* The files the list can hold, and the loads that can be pending.
MaxFiles == 2

MaxReads == 2

\* setExcelData({sheets, data: sheetData, fileName: file.name})
LoadedData(sheets, data, fileName) ==
  [loaded |-> TRUE, data |-> data, sheets |-> sheets, fileName |-> fileName]

\* The loads readExcelFile(file) and handleSheetChange start.
FileRead(file) == [kind |-> "file", file |-> file, sheet |-> ""]

SheetRead(file, sheet) == [kind |-> "sheet", file |-> file, sheet |-> sheet]

\* excelFiles.filter((file) => file.name !== fileName)
WithoutFile(files, fileName) == SelectSeq(files, LAMBDA file : file # fileName)

\* excelFiles.find((f) => f.name === fileName) finds a file.
HasFile(files, fileName) == \E i \in 1..Len(files) : files[i] = fileName

\* The selection is left as it is.
SelectionKept(remainingFiles) == selectedFile

\* removeFile, the selected file removed: remainingFiles[0].name is selected,
\* or '' when no file is left.
SelectionAfterRemoval(remainingFiles) ==
  IF Len(remainingFiles) > 0 THEN remainingFiles[1] ELSE ""

InitFiles ==
  /\ excelFiles = <<>> /\ selectedFile = "" /\ selectedSheet = "" /\ reads = <<>>
  /\ excelData = null
  /\ query = <<>> /\ result = NoResult /\ pc = "call"
  /\ calls = <<>> /\ sortOrders = {}
  /\ chatHistory = <<>> /\ loading = FALSE

\* handleFileUpload: the files chosen are added to the list, the first of
\* them is selected and its load starts.
HandleFileUpload ==
  \E files \in SeqsUpTo(Files, MaxFiles) :
    /\ Len(files) > 0
    /\ Len(excelFiles) + Len(files) <= MaxFiles
    /\ Len(reads) < MaxReads
    /\ excelFiles' = excelFiles \o files
    /\ selectedFile' = files[1]
    /\ reads' = Append(reads, FileRead(files[1]))
    /\ UNCHANGED <<excelData, selectedSheet, queryVars, chatVars>>

\* onClick of a file of the list: setSelectedFile(file.name); readExcelFile(file).
SelectFile ==
  \E i \in 1..Len(excelFiles) :
    /\ Len(reads) < MaxReads
    /\ selectedFile' = excelFiles[i]
    /\ reads' = Append(reads, FileRead(excelFiles[i]))
    /\ UNCHANGED <<excelFiles, excelData, selectedSheet, queryVars, chatVars>>

\* handleSheetChange: the sheet select is shown while a table is loaded and
\* lists the sheets of the table.
HandleSheetChange ==
  /\ Len(excelFiles) > 0
  /\ excelData # null /\ "sheets" \in DOMAIN excelData
  /\ \E i \in 1..Len(excelData.sheets) :
       /\ excelData.sheets[i] # selectedSheet
       /\ selectedSheet' = excelData.sheets[i]
       /\ IF HasFile(excelFiles, selectedFile)
          THEN /\ Len(reads) < MaxReads
               /\ reads' = Append(reads, SheetRead(selectedFile, excelData.sheets[i]))
          ELSE reads' = reads
  /\ UNCHANGED <<excelFiles, selectedFile, excelData, queryVars, chatVars>>

\* removeFile: the file is taken off the list; if it was the selected one,
\* the first file left is selected and loaded, or, when none is left, the
\* selection and the table are cleared.
RemoveFile ==
  \E i \in 1..Len(excelFiles) :
    LET fileName == excelFiles[i]
        remainingFiles == WithoutFile(excelFiles, fileName)
    IN /\ excelFiles' = remainingFiles
       /\ IF selectedFile = fileName
          THEN IF Len(remainingFiles) > 0
               THEN /\ Len(reads) < MaxReads
                    /\ selectedFile' = SelectionAfterRemoval(remainingFiles)
                    /\ reads' = Append(reads, FileRead(remainingFiles[1]))
                    /\ UNCHANGED excelData
               ELSE /\ selectedFile' = SelectionAfterRemoval(remainingFiles)
                    /\ excelData' = null
                    /\ UNCHANGED reads
          ELSE UNCHANGED <<selectedFile, excelData, reads>>
       /\ UNCHANGED <<selectedSheet, queryVars, chatVars>>

\* reader.onload of a pending load, whichever ends first.
OnLoad ==
  \E i \in 1..Len(reads) :
    LET read == reads[i]
        sheets == SheetNames(read.file)
    IN /\ reads' = SubSeq(reads, 1, i - 1) \o SubSeq(reads, i + 1, Len(reads))
       /\ IF read.kind = "file"
          THEN IF Len(sheets) > 0
               THEN /\ selectedSheet' = sheets[1]
                    /\ excelData' = LoadedData(sheets, sheet_to_json(read.file, sheets[1]),
                                               read.file)
               ELSE UNCHANGED <<selectedSheet, excelData>>
          ELSE /\ excelData' =
                    IF excelData = null THEN ExcelData(sheet_to_json(read.file, read.sheet))
                    ELSE [excelData EXCEPT !.data = sheet_to_json(read.file, read.sheet)]
               /\ UNCHANGED selectedSheet
       /\ UNCHANGED <<excelFiles, selectedFile, queryVars, chatVars>>

NextFiles == HandleFileUpload \/ SelectFile \/ HandleSheetChange \/ RemoveFile \/ OnLoad

SpecFiles == InitFiles /\ [][NextFiles]_vars

(***************************************************************************)
(* The chat of the page: the query typed or suggested, the submit of the   *)
(* form and the history of answers.                                        *)
(***************************************************************************)
\* The markup formatResponse returns, by its parts: a text alone, or the
\* summary box (none for an empty summary), the header cells, the cells of
\* the body and the number of the "Found ... matching row(s)" line.
HtmlText(text) ==
  [kind |-> "text", text |-> text, summary |-> <<>>, headers |-> <<>>, body |-> <<>>,
   found |-> 0]

HtmlTable(summary, headers, body, found) ==
  [kind |-> "table", text |-> <<>>, summary |-> summary, headers |-> headers,
   body |-> body, found |-> found]

\* formatResponse(result): the columns are the keys of the first row, and a
\* cell is `${row[col]}`, the text undefined for a cell the row has not.
formatResponse(returned) ==
  LET rows == returned.rows
      columns == ObjectKeys(rows[1])
      tableRows == [i \in 1..Len(rows) |->
                      [j \in 1..Len(columns) |-> String(rows[i][columns[j]])]]
  IN IF Len(rows) = 0
     THEN HtmlText(<<"<", "p", ">", "N", "o", " ", "m", "a", "t", "c", "h", "i", "n", "g", " ", "d", "a", "t", "a", " ", "f", "o", "u", "n", "d", " ", "i", "n", " ", "t", "h", "e", " ", "E", "x", "c", "e", "l", " ", "s", "h", "e", "e", "t", ".", "<", "/", "p", ">">>)
     ELSE HtmlTable(returned.summary, columns, tableRows, Len(rows))

\* error.message of the TypeError of Object.keys(undefined), which is the
\* engine's own text: V8's and SpiderMonkey's.
TypeErrorMessages ==
  { <<"C", "a", "n", "n", "o", "t", " ", "c", "o", "n", "v", "e", "r", "t", " ", "u", "n", "d", "e", "f", "i", "n", "e", "d", " ", "o", "r", " ", "n", "u", "l", "l", " ", "t", "o", " ", "o", "b", "j", "e", "c", "t">>,
    <<"c", "a", "n", "'", "t", " ", "c", "o", "n", "v", "e", "r", "t", " ", "u", "n", "d", "e", "f", "i", "n", "e", "d", " ", "t", "o", " ", "o", "b", "j", "e", "c", "t">> }

\* The response of the catch block.
ErrorResponse(message) == HtmlText(<<"E", "r", "r", "o", "r", " ", "p", "r", "o", "c", "e", "s", "s", "i", "n", "g", " ", "y", "o", "u", "r", " ", "r", "e", "q", "u", "e", "s", "t", ":", " ">> \o message)

\* The responses chatWithExcel can store for what the call did.
Responses(returned) ==
  IF returned.error THEN {ErrorResponse(message) : message \in TypeErrorMessages}
  ELSE {formatResponse(returned)}

\* new Date() of an entry.
Times == {1, 2}

\* {query: currentQuery, response, timestamp: new Date()}
ChatMessage(currentQuery, response, timestamp) ==
  [query |-> currentQuery, response |-> response, timestamp |-> timestamp]

\* An entry put before the entries of the history.
PrependEntry(prev, entry) == <<entry>> \o prev

\* setChatHistory((prev) => [...prev, entry])
AppendEntry(prev, entry) == prev \o <<entry>>

\* A table whose first row has no date cell and whose second row has no
\* status cell.
GapTable ==
  << Row(Str(<<"O", "K">>), Undefined),
     Row(Undefined, Str(<<"o", "k">>)) >>

ChatTables == {<<>>, StatusTable, GapTable}

\* The queries the page suggests, and the queries typed.
SuggestedQueries == {QueryShowStatusOK, QuerySortByDateDescending, QuerySummarize}

TypedQueries == {<<>>, QueryOk}

\* The submits after which the model stops submitting.
MaxSubmits == 2

InitChat ==
  /\ excelData \in {null} \cup {ExcelData(data) : data \in ChatTables}
  /\ query = <<>>
  /\ result = NoResult
  /\ pc = "call"
  /\ calls = <<>>
  /\ sortOrders = {}
  /\ excelFiles = <<>> /\ selectedFile = "" /\ selectedSheet = "" /\ reads = <<>>
  /\ chatHistory = <<>> /\ loading = FALSE

\* onChange of the textarea: the text typed, or deleted.
OnChangeQuery ==
  /\ \E typed \in TypedQueries : typed # query /\ query' = typed
  /\ UNCHANGED <<excelData, result, pc, calls, sortOrders, fileVars, chatVars>>

\* onClick of a suggestion, shown while a table is loaded.
SuggestQuery ==
  /\ excelData # null
  /\ \E suggested \in SuggestedQueries : suggested # query /\ query' = suggested
  /\ UNCHANGED <<excelData, result, pc, calls, sortOrders, fileVars, chatVars>>

\* chatWithExcel, the onSubmit of the form: nothing without a table or a
\* query; else the query is cleared, the call is made, and its formatted
\* result, or the message of what it threw, is put at the end of the
\* history. The function has no await: setLoading(true) and the
\* setLoading(false) of finally are one update, which leaves loading false.
ChatWithExcel ==
  IF excelData = null \/ query = <<>>
  THEN UNCHANGED vars
  ELSE /\ Len(calls) < MaxSubmits
       /\ \E returned \in QueryResults :
            /\ SameEngineOrder(returned.rows)
            /\ result' = returned
            /\ excelData' = TableAfterQuery(excelData, returned.rows)
            /\ calls' = Append(calls, [table |-> excelData, query |-> query,
                                       result |-> returned])
            /\ sortOrders' =
                 IF NoSortCall THEN sortOrders
                 ELSE sortOrders \cup {[call |-> SortCall, rows |-> returned.rows]}
            /\ \E response \in Responses(returned), timestamp \in Times :
                 chatHistory' = AppendEntry(chatHistory,
                                            ChatMessage(query, response, timestamp))
       /\ query' = <<>>
       /\ loading' = FALSE
       /\ UNCHANGED <<pc, fileVars>>

\* clearChatHistory
ClearChatHistory ==
  /\ chatHistory # <<>>
  /\ chatHistory' = <<>>
  /\ UNCHANGED <<excelData, queryVars, fileVars, loading>>

NextChat == OnChangeQuery \/ SuggestQuery \/ ChatWithExcel \/ ClearChatHistory

SpecChat == InitChat /\ [][NextChat]_vars

(***************************************************************************)
(* What the properties speak of.                                           *)
(***************************************************************************)
\* A call on a loaded table with a non-empty query has returned.
Answered == pc = "done" /\ excelData # null /\ query # <<>>

\* The three intents of the query of the state.
FilterIntent == \E k \in FilterKeywords : Includes(ToLowerCase(query), k)

SortIntent == \E k \in SortKeywords : Includes(ToLowerCase(query), k)

SummarizeIntent == \E k \in SummarizeKeywords : Includes(ToLowerCase(query), k)

\* The cell of a row in a column, as lower-cased text.
LowerText(row, col) == ToLowerCase(String(row[col]))

\* The row has a cell whose lower-cased text contains the text.
SomeCellContains(row, text) ==
  \E col \in Range(Header) : row[col] # Undefined /\ Includes(LowerText(row, col), text)

\* The column and the vocabulary value the query of the state names: the
\* first column of the first row, and the first vocabulary term, in the query.
NamedColumns ==
  IF Len(excelData.data) = 0 THEN <<>>
  ELSE SelectSeq(Header,
         LAMBDA col : /\ excelData.data[1][col] # Undefined
                      /\ Includes(ToLowerCase(query), ToLowerCase(ColumnName(col))))

NamedValues == SelectSeq(commonValues, LAMBDA val : Includes(ToLowerCase(query), val))

\* seq and other have the same elements, each as often.
SameElements(seq, other) ==
  /\ Len(seq) = Len(other)
  /\ \A x \in Range(seq) \cup Range(other) :
       Cardinality({i \in 1..Len(seq) : seq[i] = x})
         = Cardinality({i \in 1..Len(other) : other[i] = x})

\* The text up to the first "<br>".
RECURSIVE FirstLine(_)
FirstLine(text) ==
  IF Len(text) = 0 \/ (Len(text) >= 4 /\ SubSeq(text, 1, 4) = <<"<", "b", "r", ">">>) THEN <<>>
  ELSE <<text[1]>> \o FirstLine(Tail(text))

\* The lines of a text whose lines are joined by "<br>".
RECURSIVE Lines(_)
Lines(text) ==
  LET first == FirstLine(text)
  IN IF Len(first) = Len(text) THEN <<first>>
     ELSE <<first>> \o Lines(SubSeq(text, Len(first) + 5, Len(text)))

(***************************************************************************)
(* C1.  A query with no filter, sort or summarize keyword returns exactly   *)
(* the rows of the table that have a cell whose lower-cased text contains  *)
(* the lower-cased query, in the order of the table.                       *)
(***************************************************************************)
C1_PlainSearch ==
  (Answered /\ ~FilterIntent /\ ~SortIntent /\ ~SummarizeIntent)
    => /\ ~result.error
       /\ result.rows =
            SelectSeq(excelData.data,
                      LAMBDA row : SomeCellContains(row, ToLowerCase(query)))

\* A plain search that keeps two rows of three, one for a cell that contains
\* the query without being equal to it.
C1_Witness ==
  /\ Answered /\ ~FilterIntent /\ ~SortIntent /\ ~SummarizeIntent
  /\ Len(excelData.data) = 3
  /\ Len(result.rows) = 2
  /\ \E i \in 1..2 : \A col \in Range(Header) :
       LowerText(result.rows[i], col) # ToLowerCase(query)

(***************************************************************************)
(* C2.  A query with sort intent only that names a column returns all the  *)
(* rows of the table, ordered by that column in the direction asked for.   *)
(***************************************************************************)
C2_SortOnlyReturnsAllRows ==
  (Answered /\ SortIntent /\ ~FilterIntent /\ ~SummarizeIntent /\ Len(NamedColumns) > 0)
    => /\ SameElements(result.rows, excelData.data)
       /\ \A i, j \in 1..Len(result.rows) :
            i < j => SortCompare(result.rows[i], result.rows[j], NamedColumns[1],
                                 isDescending(ToLowerCase(query))) <= 0

(***************************************************************************)
(* C3.  A query with summarize intent only on a table of N >= 1 rows       *)
(* returns a summary that is not empty and whose first line is             *)
(* "Total rows: N".                                                        *)
(***************************************************************************)
C3_SummarizeOnlyTotalRows ==
  (Answered /\ SummarizeIntent /\ ~FilterIntent /\ ~SortIntent /\ Len(excelData.data) >= 1)
    => /\ result.summary # <<>>
       /\ FirstLine(result.summary) = <<"T", "o", "t", "a", "l", " ", "r", "o", "w", "s", ":", " ">> \o NatToString(Len(excelData.data))

(***************************************************************************)
(* C4.  A filter query that names a column C and a vocabulary value v.     *)
(***************************************************************************)
\* The rows of the table whose C cell, lower-cased, is v, in table order.
RowsEqualTo(col, val) ==
  SelectSeq(excelData.data, LAMBDA row : LowerText(row, col) = val)

FilterByColumnAndValue ==
  Answered /\ FilterIntent /\ Len(NamedColumns) > 0 /\ Len(NamedValues) > 0

\* C4 as claimed: the rows returned are exactly the rows whose C cell,
\* lower-cased, equals v, in table order.
C4_Original ==
  FilterByColumnAndValue => result.rows = RowsEqualTo(NamedColumns[1], NamedValues[1])

\* C4 as amended: the rows returned are exactly the rows whose C cell,
\* lower-cased, equals v; they are in table order when the query has no sort
\* intent, and in the order of the sort stage when it has.
C4_FilterByColumnAndValue ==
  FilterByColumnAndValue
    => /\ ~result.error
       /\ SameElements(result.rows, RowsEqualTo(NamedColumns[1], NamedValues[1]))
       /\ ~SortIntent => result.rows = RowsEqualTo(NamedColumns[1], NamedValues[1])

\* The page's own query on the OK, OK, FAIL table gives the two OK rows.
C4_Witness ==
  /\ FilterByColumnAndValue /\ ~SortIntent
  /\ query = QueryShowStatusOK
  /\ excelData.data = StatusTable
  /\ result.rows = <<StatusTable[1], StatusTable[2]>>

(***************************************************************************)
(* C5.  On a table with no rows every non-empty query returns no rows and  *)
(* raises no error.                                                        *)
(***************************************************************************)
C5_EmptyTable ==
  (Answered /\ excelData.data = <<>>) => (result.rows = <<>> /\ ~result.error)

\* A filter and sort query answered on the table with no rows.
C5_Witness ==
  /\ Answered /\ excelData.data = <<>>
  /\ FilterIntent /\ SortIntent
  /\ result.rows = <<>> /\ ~result.error

(***************************************************************************)
(* The summary of the rows returned.                                       *)
(***************************************************************************)
\* The call returned rows and summarised them.
Summarised ==
  /\ Answered /\ ~result.error
  /\ Len(result.rows) > 0
  /\ (SummarizeIntent \/ Len(result.rows) > SummaryThreshold)

\* The columns of the rows returned: those the first of them has a cell for.
ResultColumns == SelectSeq(Header, LAMBDA col : result.rows[1][col] # Undefined)

SummaryHasLine(line) == \E i \in 1..Len(Lines(result.summary)) : Lines(result.summary)[i] = line

(***************************************************************************)
(* C6.  The minimum, maximum and average of a column in the summary are    *)
(* those of the cells that are numbers or texts of digits; absent cells,   *)
(* empty texts and other texts are left out and never count as zero.       *)
(***************************************************************************)
\* The values of the cells of the column that hold a number: a number, or a
\* text that is not empty and is all digits.
HoldsNumber(cell) ==
  \/ cell.t = "number"
  \/ /\ cell.t = "string"
     /\ Len(Trim(cell.s)) > 0
     /\ \A i \in 1..Len(Trim(cell.s)) : IsDigit(Trim(cell.s)[i])

NumbersHeld(rows, col) ==
  LET held == SelectSeq([i \in 1..Len(rows) |-> rows[i][col]], HoldsNumber)
  IN [i \in 1..Len(held) |->
        IF held[i].t = "number" THEN held[i].n ELSE DigitsValue(Trim(held[i].s))]

RECURSIVE Sum(_)
Sum(numbers) == IF Len(numbers) = 0 THEN 0 ELSE numbers[1] + Sum(Tail(numbers))

StatisticsLine(col, numbers) ==
  ColumnName(col)
    \o <<":", " ", "M", "i", "n", "=">> \o toFixed(Quot(CHOOSE m \in Range(numbers) : \A n \in Range(numbers) : m <= n, 1), 2)
    \o <<",", " ", "M", "a", "x", "=">> \o toFixed(Quot(CHOOSE m \in Range(numbers) : \A n \in Range(numbers) : m >= n, 1), 2)
    \o <<",", " ", "A", "v", "g", "=">> \o toFixed(Quot(Sum(numbers), Len(numbers)), 2)

C6_StatisticsOverNumbersOnly ==
  Summarised =>
    \A col \in Range(ResultColumns) :
      Len(NumbersHeld(result.rows, col)) > 0
        => SummaryHasLine(StatisticsLine(col, NumbersHeld(result.rows, col)))

(***************************************************************************)
(* C7.  The distribution line of a column with at most 10 distinct texts   *)
(* lists at most the 3 most frequent texts, the more frequent first, and   *)
(* texts of equal frequency in the order of their first occurrence in the  *)
(* rows.                                                                   *)
(***************************************************************************)
FewDistinct(col) ==
  Cardinality({String(result.rows[i][col]) : i \in 1..Len(result.rows)}) <= MaxUniqueValues

\* The texts of the column by falling frequency, first occurrence first
\* among equals: the first three of them.
MostFrequentFirst(rows, col) ==
  LET texts == Distinct(CellTexts(rows, col))
      Count(val) == Cardinality({i \in 1..Len(rows) : String(rows[i][col]) = val})
      falling == StableSort(texts, [a, b \in Range(texts) |-> Count(b) - Count(a)])
  IN SubSeq(falling, 1, IF Len(falling) < 3 THEN Len(falling) ELSE 3)

C7_TiesInFirstEncounteredOrder ==
  Summarised =>
    \A col \in Range(ResultColumns) :
      FewDistinct(col) =>
        LET listed == MostFrequentFirst(result.rows, col)
        IN SummaryHasLine(
             ColumnName(col) \o <<" ", "d", "i", "s", "t", "r", "i", "b", "u", "t", "i", "o", "n", ":", " ">>
               \o Join([i \in 1..Len(listed) |->
                          DistributionEntry(result.rows, col, listed[i])], <<",", " ">>))

(***************************************************************************)
(* C8.  In a distribution line the count of a listed text is the number of *)
(* summarised rows whose cell has that text, and its percentage is         *)
(* 100 * count / rows to one decimal.                                      *)
(***************************************************************************)
\* The decimal text, with one decimal, nearest to num/den.
OneDecimal(num, den) ==
  LET tenths == CHOOSE k \in 0..(((10 * num) \div den) + 1) :
                  /\ 2 * den * k - den <= 20 * num
                  /\ 20 * num < 2 * den * k + den
  IN NatToString(tenths \div 10) \o <<".">> \o NatToString(tenths % 10)

CountedEntry(col, val) ==
  LET count == Cardinality({i \in 1..Len(result.rows) : String(result.rows[i][col]) = val})
  IN val \o <<":", " ">> \o NatToString(count)
       \o <<" ", "(">> \o OneDecimal(100 * count, Len(result.rows)) \o <<"%", ")">>

C8_CountAndPercentage ==
  Summarised =>
    \A col \in Range(ResultColumns) :
      FewDistinct(col) =>
        LET listed == TopValues(result.rows, col)
        IN SummaryHasLine(
             ColumnName(col) \o <<" ", "d", "i", "s", "t", "r", "i", "b", "u", "t", "i", "o", "n", ":", " ">>
               \o Join([i \in 1..Len(listed) |-> CountedEntry(col, listed[i])], <<",", " ">>))

\* Seven OK and three FAIL in ten rows.
C8_Witness ==
  /\ Summarised
  /\ excelData.data = TenRowTable
  /\ Len(result.rows) = 10
  /\ SummaryHasLine(<<"s", "t", "a", "t", "u", "s", " ", "d", "i", "s", "t", "r", "i", "b", "u", "t", "i", "o", "n", ":", " ", "O", "K", ":", " ", "7", " ", "(", "7", "0", ".", "0", "%", ")", ",", " ", "F", "A", "I", "L", ":", " ", "3", " ", "(", "3", "0", ".", "0", "%", ")">>)

(***************************************************************************)
(* The sort stage of the call.                                             *)
(***************************************************************************)
\* The sort stage ran: the query has sort intent and names a column.
Sorted == Answered /\ ~result.error /\ SortIntent /\ Len(NamedColumns) > 0

\* The rows the sort stage was given.
SortInput ==
  FilterStage(excelData.data, DefaultSearch(excelData.data, ToLowerCase(query)),
              ToLowerCase(query))

\* The comparator of the sort stage of the call.
Compare(a, b) == SortCompare(a, b, NamedColumns[1], isDescending(ToLowerCase(query)))

(***************************************************************************)
(* C9.  The sort stage is stable: two rows whose sort values compare equal *)
(* are in the output in the order they had in the input of the stage.      *)
(***************************************************************************)
C9_SortStable ==
  Sorted =>
    \A a, b \in Range(SortInput) :
      (a # b /\ Compare(a, b) = 0)
        => SelectSeq(result.rows, LAMBDA row : row \in {a, b})
             = SelectSeq(SortInput, LAMBDA row : row \in {a, b})

(***************************************************************************)
(* C10.  Sorting is idempotent: rows that were sorted ascending by a       *)
(* column keep their order when sorted ascending by it again.              *)
(***************************************************************************)
C10_SortIdempotent ==
  (Sorted /\ ~isDescending(ToLowerCase(query)))
    => \A again \in SortStage(excelData.data, result.rows, ToLowerCase(query)) :
         again = result.rows

(***************************************************************************)
(* C11.  When the rows returned are not empty, the summary is not empty    *)
(* exactly when the query has summarize intent or more than 10 rows are    *)
(* returned; otherwise it is the empty text.                               *)
(***************************************************************************)
C11_SummaryTrigger ==
  (Answered /\ ~result.error /\ Len(result.rows) > 0)
    => (result.summary # <<>> <=> (SummarizeIntent \/ Len(result.rows) > 10))

\* Eleven rows returned to a query without summarize intent are summarised.
C11_Witness ==
  /\ Answered /\ ~result.error /\ ~SummarizeIntent
  /\ Len(result.rows) = 11
  /\ FirstLine(result.summary) = <<"T", "o", "t", "a", "l", " ", "r", "o", "w", "s", ":", " ", "1", "1">>

(***************************************************************************)
(* C12.  When no row is returned, the summary.                             *)
(***************************************************************************)
\* C12 as claimed: when no row is returned the summary is the empty text,
\* with or without summarize intent.
C12_Original ==
  (Answered /\ ~result.error /\ Len(result.rows) = 0) => result.summary = <<>>

\* C12 as amended: when no row is returned the summary is the text
\* "No data available for summary.", with or without summarize intent.
C12_NoRowsSummary ==
  (Answered /\ ~result.error /\ Len(result.rows) = 0)
    => result.summary = <<"N", "o", " ", "d", "a", "t", "a", " ", "a", "v", "a", "i", "l", "a", "b", "l", "e", " ", "f", "o", "r", " ", "s", "u", "m", "m", "a", "r", "y", ".">>

\* No row returned, to a query with summarize intent and to one without.
C12_Witness ==
  /\ Answered /\ ~result.error /\ Len(result.rows) = 0
  /\ Len(excelData.data) > 0
  /\ SummarizeIntent
  /\ result.summary = <<"N", "o", " ", "d", "a", "t", "a", " ", "a", "v", "a", "i", "l", "a", "b", "l", "e", " ", "f", "o", "r", " ", "s", "u", "m", "m", "a", "r", "y", ".">>

C15_NoTableWithoutSelection == selectedFile = "" => excelData = null

(***************************************************************************)
(* C16.  A filter query that names a vocabulary value.                     *)
(***************************************************************************)
\* The column named, the value named, and the rows of the table the filter
\* stage keeps for them: the rows whose cell in the column, or, with no
\* column named, one of whose cells, lower-cased, is the value.
FilterByValue == Answered /\ ~result.error /\ FilterIntent /\ Len(NamedValues) > 0

RowsOfValue ==
  IF Len(NamedColumns) > 0 THEN RowsEqualTo(NamedColumns[1], NamedValues[1])
  ELSE SelectSeq(excelData.data,
         LAMBDA row : \E col \in Range(Header) :
                        row[col] # Undefined /\ LowerText(row, col) = NamedValues[1])

\* The rows of the plain search for the whole query.
Baseline ==
  SelectSeq(excelData.data, LAMBDA row : SomeCellContains(row, ToLowerCase(query)))

\* C16 as claimed: every row returned is a row of the plain search.
C16_Original ==
  FilterByValue => \A i \in 1..Len(result.rows) : result.rows[i] \in Range(Baseline)

\* C16 as amended: the rows returned are the rows of the table that match
\* the value, whether the plain search has them or not.
C16_FilterReplacesBaseline ==
  FilterByValue => SameElements(result.rows, RowsOfValue)

\* The page's own query returns two rows the plain search has not.
C16_Witness ==
  /\ FilterByValue
  /\ query = QueryShowStatusOK
  /\ Len(result.rows) = 2
  /\ Baseline = <<>>

(***************************************************************************)
(* C17.  After a sort by a column, the rows returned are ordered by the    *)
(* comparator: for all places i < j the ascending comparator gives a value *)
(* <= 0 on an ascending sort and >= 0 on a descending one, also when the   *)
(* column mixes numbers and other texts.                                   *)
(***************************************************************************)
Ascending(a, b) == SortCompare(a, b, NamedColumns[1], FALSE)

C17_OutputOrdered ==
  Sorted =>
    \A i, j \in 1..Len(result.rows) :
      i < j => IF isDescending(ToLowerCase(query))
               THEN Ascending(result.rows[i], result.rows[j]) >= 0
               ELSE Ascending(result.rows[i], result.rows[j]) <= 0

(***************************************************************************)
(* C18.  The value a filter query names is the first term of the           *)
(* vocabulary, in the order ok, not ok, yes, no, true, false, pass, fail,  *)
(* that the lower-cased query contains, and none if it contains none; a    *)
(* value named decides the filter, also when a column is named.            *)
(***************************************************************************)
\* The places of the vocabulary whose term the query contains.
TermsInQuery ==
  LET queryLower == ToLowerCase(query)
  IN {i \in 1..Len(commonValues) : Includes(queryLower, commonValues[i])}

FirstTermInQuery ==
  LET terms == TermsInQuery
  IN IF terms = {} THEN <<>>
     ELSE commonValues[CHOOSE i \in terms : \A j \in terms : i <= j]

\* The rows of the table with a cell, in the column if one is given, whose
\* lower-cased text is the value.
RowsWithValue(col, val) ==
  SelectSeq(excelData.data,
    LAMBDA row : \E c \in (IF col = "" THEN Range(Header) ELSE {col}) :
                   row[c] # Undefined /\ LowerText(row, c) = val)

C18_FirstVocabularyTerm ==
  (Answered /\ ~result.error /\ FilterIntent)
    => LET term == FirstTermInQuery
           column == IF Len(NamedColumns) > 0 THEN NamedColumns[1] ELSE ""
           expected == RowsWithValue(column, term)
       IN /\ TargetValue(ToLowerCase(query)) = term
          /\ term # <<>> => SameElements(result.rows, expected)

\* "where not ok" holds the terms ok, not ok and no: the rows returned are
\* the rows with a cell "ok", in either case.
C18_Witness ==
  /\ Answered /\ ~result.error /\ FilterIntent
  /\ query = QueryWhereNotOk
  /\ Cardinality(TermsInQuery) = 3
  /\ FirstTermInQuery = <<"o", "k">>
  /\ Len(result.rows) = 2 /\ Len(excelData.data) = 3
  /\ \A i \in 1..2 : LowerText(result.rows[i], "status") = <<"o", "k">>

(***************************************************************************)
(* C19.  The column a filter or sort query names is the first column, in   *)
(* the key order of the first row of the table, whose lower-cased name the *)
(* lower-cased query contains, and none if it contains no column name.     *)
(***************************************************************************)
\* The places, in the key order of the first row, of the columns of the
\* first row whose name the query contains.
ColumnsInQuery ==
  LET queryLower == ToLowerCase(query)
  IN IF Len(excelData.data) = 0 THEN {}
     ELSE {i \in 1..Len(Header) :
             /\ excelData.data[1][Header[i]] # Undefined
             /\ Includes(queryLower, ToLowerCase(ColumnName(Header[i])))}

FirstColumnInQuery ==
  LET columns == ColumnsInQuery
  IN IF columns = {} THEN ""
     ELSE Header[CHOOSE i \in columns : \A j \in columns : i <= j]

\* The rows of the table whose cell in the column is there and is not the
\* empty text.
RowsWithCell(col) ==
  SelectSeq(excelData.data, LAMBDA row : row[col] # Undefined /\ row[col] # Str(<<>>))

C19_FirstColumnInKeyOrder ==
  (Answered /\ ~result.error /\ (FilterIntent \/ SortIntent))
    => LET column == FirstColumnInQuery
           term == FirstTermInQuery
           expected == IF term # <<>> THEN RowsWithValue(column, term)
                       ELSE RowsWithCell(column)
       IN /\ FindColumn(Columns(excelData.data), ToLowerCase(query)) = column
          /\ (FilterIntent /\ column # "") => SameElements(result.rows, expected)

\* "show date status" on a table with both columns filters by status, the
\* first column of the table: a row with no date is returned.
C19_Witness ==
  /\ Answered /\ ~result.error /\ FilterIntent
  /\ query = QueryShowDateStatus
  /\ Cardinality(ColumnsInQuery) = 2
  /\ FirstColumnInQuery = "status"
  /\ \E i \in 1..Len(result.rows) : result.rows[i]["date"] \in {Undefined, Str(<<>>)}
  /\ Len(result.rows) < Len(excelData.data)

(***************************************************************************)
(* C20.  For a filter query that names a column C and no vocabulary value, *)
(* the rows the filter stage gives are exactly the rows of the table whose *)
(* C cell is there and is not the empty text, in the order of the table.   *)
(***************************************************************************)
FilterByColumnOnly ==
  Answered /\ ~result.error /\ FilterIntent
    /\ TermsInQuery = {} /\ FirstColumnInQuery # ""

C20_ColumnOnlyFilter ==
  FilterByColumnOnly
    => LET expected == RowsWithCell(FirstColumnInQuery)
       IN /\ SortInput = expected
          /\ SameElements(result.rows, expected)
          /\ ~SortIntent => result.rows = expected

\* "show date" on three rows, one with no date cell and one with an empty
\* text for date, returns the third.
C20_Witness ==
  /\ FilterByColumnOnly /\ ~SortIntent
  /\ query = QueryShowDate
  /\ Len(excelData.data) = 3
  /\ \E i \in 1..3 : excelData.data[i]["date"] = Undefined
  /\ \E i \in 1..3 : excelData.data[i]["date"] = Str(<<>>)
  /\ Len(result.rows) = 1

(***************************************************************************)
(* C21.  For a filter query that names a vocabulary value v and no column, *)
(* the rows the filter stage gives are exactly the rows of the table with  *)
(* a cell whose lower-cased text is v, in the order of the table.          *)
(***************************************************************************)
FilterByValueOnly ==
  Answered /\ ~result.error /\ FilterIntent
    /\ FirstTermInQuery # <<>> /\ FirstColumnInQuery = ""

C21_ValueOnlyFilter ==
  FilterByValueOnly
    => LET expected == RowsWithValue("", FirstTermInQuery)
       IN /\ SortInput = expected
          /\ SameElements(result.rows, expected)
          /\ ~SortIntent => result.rows = expected

\* "where not ok" on three rows, one of them with a cell "okay" and none
\* with a cell that holds the query, returns the other two.
C21_Witness ==
  /\ FilterByValueOnly /\ ~SortIntent
  /\ query = QueryWhereNotOk
  /\ Len(excelData.data) = 3
  /\ \E i \in 1..3 : LowerText(excelData.data[i], "status") = <<"o", "k", "a", "y">>
  /\ Len(result.rows) = 2
  /\ \A i \in 1..2 : LowerText(result.rows[i], "status") = <<"o", "k">>

(***************************************************************************)
(* C22.  A stage that resolves nothing is skipped and the others run: a    *)
(* filter query that names no column and no value returns the rows of the  *)
(* plain search for the query; a sort query that names no column returns   *)
(* the rows of the filter stage in their order; the summary is that of the *)
(* rows returned; and no error is raised.                                  *)
(***************************************************************************)
FilterUnresolved ==
  Answered /\ FilterIntent /\ FirstTermInQuery = <<>> /\ FirstColumnInQuery = ""

SortUnresolved == Answered /\ SortIntent /\ FirstColumnInQuery = ""

\* The summary of rows as the spec of the summary stage has it: none for
\* up to 10 rows without summarize intent, else lines that start with the
\* number of rows.
SummaryRan ==
  IF Len(result.rows) = 0 THEN result.summary = <<"N", "o", " ", "d", "a", "t", "a", " ", "a", "v", "a", "i", "l", "a", "b", "l", "e", " ", "f", "o", "r", " ", "s", "u", "m", "m", "a", "r", "y", ".">>
  ELSE IF SummarizeIntent \/ Len(result.rows) > 10
       THEN FirstLine(result.summary) = <<"T", "o", "t", "a", "l", " ", "r", "o", "w", "s", ":", " ">> \o NatToString(Len(result.rows))
       ELSE result.summary = <<>>

C22_UnresolvedStageSkipped ==
  /\ FilterUnresolved
       => /\ ~result.error
          /\ SortInput = Baseline
          /\ SummaryRan
  /\ SortUnresolved
       => /\ ~result.error
          /\ result.rows = SortInput
          /\ SummaryRan

\* "show date" on a table without a date column, one of whose cells is
\* "show date": the row of that cell is returned.
C22_Witness ==
  /\ FilterUnresolved
  /\ excelData.data = QueryCellTable
  /\ query = QueryShowDate
  /\ result.rows = <<QueryCellTable[1]>>
  /\ result.summary = <<>>

(***************************************************************************)
(* C23.  The query has filter intent exactly when its lower-cased text     *)
(* holds one of filter, show, only, which, where; sort intent when it      *)
(* holds one of sort, order by, arrange; summarize intent when it holds    *)
(* one of summarize, summary, stats, statistics, count.  The intents are   *)
(* independent, and every stage whose intent is there is applied.          *)
(***************************************************************************)
HoldsOneOf(text, words) == \E word \in words : Includes(text, word)

C23_IntentsIndependent ==
  (Answered /\ ~result.error)
    => LET queryLower == ToLowerCase(query)
           filter == HoldsOneOf(queryLower,
                       {<<"f", "i", "l", "t", "e", "r">>, <<"s", "h", "o", "w">>, <<"o", "n", "l", "y">>, <<"w", "h", "i", "c", "h">>, <<"w", "h", "e", "r", "e">>})
           sort == HoldsOneOf(queryLower, {<<"s", "o", "r", "t">>, <<"o", "r", "d", "e", "r", " ", "b", "y">>, <<"a", "r", "r", "a", "n", "g", "e">>})
           summarize == HoldsOneOf(queryLower,
                          {<<"s", "u", "m", "m", "a", "r", "i", "z", "e">>, <<"s", "u", "m", "m", "a", "r", "y">>, <<"s", "t", "a", "t", "s">>, <<"s", "t", "a", "t", "i", "s", "t", "i", "c", "s">>, <<"c", "o", "u", "n", "t">>})
           column == FirstColumnInQuery
           term == FirstTermInQuery
           filtered == IF ~filter \/ (term = <<>> /\ column = "") THEN Baseline
                       ELSE IF term # <<>> THEN RowsWithValue(column, term)
                       ELSE RowsWithCell(column)
           cmp == [a, b \in Range(filtered) |->
                     SortCompare(a, b, column, isDescending(queryLower))]
       IN /\ isFilterQuery(queryLower) = filter
          /\ isSortQuery(queryLower) = sort
          /\ isSummarizeQuery(queryLower) = summarize
          /\ result.rows \in (IF sort /\ column # "" THEN ArraySort(filtered, cmp)
                              ELSE {filtered})
          /\ (summarize /\ Len(result.rows) > 0)
               => FirstLine(result.summary)
                    = <<"T", "o", "t", "a", "l", " ", "r", "o", "w", "s", ":", " ">> \o NatToString(Len(result.rows))

\* A query with the three intents: two of three rows are kept, they come
\* back in another order than the table has them, and they are summarised.
C23_Witness ==
  /\ Answered /\ ~result.error
  /\ FilterIntent /\ SortIntent /\ SummarizeIntent
  /\ query = QueryShowDateStatusSortCount
  /\ Len(excelData.data) = 3 /\ Len(result.rows) = 2
  /\ result.rows # SortInput
  /\ FirstLine(result.summary) = <<"T", "o", "t", "a", "l", " ", "r", "o", "w", "s", ":", " ", "2">>

(***************************************************************************)
(* C24.  A sort by a column is descending when the lower-cased query holds *)
(* one of descending, desc, high to low, largest, highest, and ascending   *)
(* otherwise; the descending order is that of the ascending comparator     *)
(* with its result inverted.                                               *)
(***************************************************************************)
C24_SortDirection ==
  (Answered /\ ~result.error /\ SortIntent)
    => LET queryLower == ToLowerCase(query)
           descending == HoldsOneOf(queryLower,
                           {<<"d", "e", "s", "c", "e", "n", "d", "i", "n", "g">>, <<"d", "e", "s", "c">>, <<"h", "i", "g", "h", " ", "t", "o", " ", "l", "o", "w">>, <<"l", "a", "r", "g", "e", "s", "t">>,
                            <<"h", "i", "g", "h", "e", "s", "t">>})
           column == FirstColumnInQuery
           input == SortInput
           cmp == [a, b \in Range(input) |->
                     IF descending THEN 0 - SortCompare(a, b, column, FALSE)
                     ELSE SortCompare(a, b, column, FALSE)]
       IN column # ""
            => /\ isDescending(queryLower) = descending
               /\ result.rows \in ArraySort(input, cmp)

\* "show date sort desc" on the dates 2023, 2021, 2022 gives 2023, 2022, 2021.
C24_Witness ==
  /\ Sorted
  /\ query = QueryShowDateSortDesc
  /\ excelData.data = StatusTable
  /\ result.rows = <<StatusTable[1], StatusTable[3], StatusTable[2]>>

(***************************************************************************)
(* C25.  The value a query filters by is never "not ok": a query that      *)
(* holds "not ok" holds "ok", the earlier term, and filters for the cells  *)
(* that are "ok".                                                          *)
(***************************************************************************)
C25_NeverNotOk ==
  (Answered /\ ~result.error /\ FilterIntent)
    => LET queryLower == ToLowerCase(query)
       IN /\ TargetValue(queryLower) # <<"n", "o", "t", " ", "o", "k">>
          /\ Includes(queryLower, <<"n", "o", "t", " ", "o", "k">>)
               => /\ TargetValue(queryLower) = <<"o", "k">>
                  /\ SameElements(result.rows, RowsWithValue(FirstColumnInQuery, <<"o", "k">>))

\* "where not ok" on a status column of "not ok" and "OK" returns the row
\* of "OK" and not the row of "not ok".
C25_Witness ==
  /\ Answered /\ ~result.error /\ FilterIntent
  /\ query = QueryWhereNotOk
  /\ excelData.data = NotOkTable
  /\ result.rows = <<NotOkTable[2]>>

C27_TableOfSelection ==
  (reads = <<>> /\ excelData # null) =>
    /\ "fileName" \in DOMAIN excelData
    /\ excelData.fileName = selectedFile
    /\ excelData.data = sheet_to_json(selectedFile, selectedSheet)

\* C28: a table that is present has its list of sheet names and its file
\* name, also after the load of a sheet switch ended once the selected file
\* was removed.
C28_TableHasSheetsAndFileName ==
  excelData # null =>
    /\ "sheets" \in DOMAIN excelData
    /\ "fileName" \in DOMAIN excelData

\* A response is the message of the catch block.
ErrorMessage(response) ==
  /\ response.kind = "text"
  /\ SubSeq(response.text, 1, Len(<<"E", "r", "r", "o", "r", " ", "p", "r", "o", "c", "e", "s", "s", "i", "n", "g", " ", "y", "o", "u", "r", " ", "r", "e", "q", "u", "e", "s", "t", ":", " ">>)) =
       <<"E", "r", "r", "o", "r", " ", "p", "r", "o", "c", "e", "s", "s", "i", "n", "g", " ", "y", "o", "u", "r", " ", "r", "e", "q", "u", "e", "s", "t", ":", " ">>

RemovedFile == CHOOSE file \in Range(excelFiles) : file \notin Range(excelFiles')

=============================================================================
